---- MODULE Spec2Model ----
(***************************************************************************)
(* A model of scripts/k8s-app-health-checker.py: one run of main(), from   *)
(* argument parsing to process exit, with the three checks, the overall    *)
(* health assessment, the recommendations and the report.                  *)
(*                                                                         *)
(* Conventions.                                                            *)
(*  - A Python str the code searches or builds character by character is a *)
(*    sequence of one-character strings; the texts of the cluster CLI and  *)
(*    the printed lines, which the code only stores, are plain strings.    *)
(*  - A Python dict is a function from its keys; Get models dict.get.      *)
(*  - Time is counted in ticks of 0.1 ms; a value the code has rounded to  *)
(*    three decimals of a second is counted in milliseconds.               *)
(*  - What the target and the cluster CLI answer during the run is fixed   *)
(*    in the variable env by the initial state; the actions are the steps  *)
(*    of the code.                                                         *)
(***************************************************************************)
EXTENDS Integers, Sequences, FiniteSets, TLC

VARIABLES
    args,             \* parsed command line: k8s_mode, quiet, output
    env,              \* what the outside world answers during this run
    pc,               \* position of the run in main / run_comprehensive_check
    k8s_mode,         \* K8sAppHealthChecker.k8s_mode
    checks,           \* results['checks']
    overall_health,   \* results['overall_health']
    recommendations,  \* results['recommendations']
    stdout,           \* lines printed to standard output, in order
    calls,            \* external calls made so far, in order
    exit_code         \* <<the process exit status>>, empty while running

vars == <<args, env, pc, k8s_mode, checks, overall_health, recommendations,
          stdout, calls, exit_code>>

-----------------------------------------------------------------------------
(* Bounds of the model *)

\* longest pod listing the cluster CLI returns
MaxPods == 2
\* longest condition list of a pod
MaxConds == 2

-----------------------------------------------------------------------------
(* Python values *)

None == "None"
Absent == "<absent>"
EmptyDict == << >>

Get(d, key, default) == IF key \in DOMAIN d THEN d[key] ELSE default

SeqsUpTo(S, n) == UNION {[1..k -> S] : k \in 0..n}

UpperCase ==
    <<"A", "B", "C", "D", "E", "F", "G", "H", "I", "J", "K", "L", "M",
      "N", "O", "P", "Q", "R", "S", "T", "U", "V", "W", "X", "Y", "Z">>
LowerCase ==
    <<"a", "b", "c", "d", "e", "f", "g", "h", "i", "j", "k", "l", "m",
      "n", "o", "p", "q", "r", "s", "t", "u", "v", "w", "x", "y", "z">>

lower_char(c) ==
    IF \E i \in 1..26 : UpperCase[i] = c
    THEN LowerCase[CHOOSE i \in 1..26 : UpperCase[i] = c]
    ELSE c

\* str.lower()
lower(s) == [i \in 1..Len(s) |-> lower_char(s[i])]

\* needle in hay
contains(hay, needle) ==
    \E i \in 0..(Len(hay) - Len(needle)) :
        \A j \in 1..Len(needle) : hay[i + j] = needle[j]

Digits == <<"0", "1", "2", "3", "4", "5", "6", "7", "8", "9">>

\* str(n) for a non-negative int
RECURSIVE str_int(_)
str_int(n) ==
    IF n < 10 THEN <<Digits[n + 1]>>
    ELSE str_int(n \div 10) \o <<Digits[(n % 10) + 1]>>

\* round(t, 3) of a time of t ticks, in milliseconds (ties to even)
round3(t) ==
    LET q == t \div 10
        r == t % 10
    IN  IF r < 5 THEN q
        ELSE IF r > 5 THEN q + 1
        ELSE IF q % 2 = 0 THEN q ELSE q + 1

\* a byte that is not valid UTF-8
InvalidByte == "<0xFF>"

\* bytes.decode('utf-8', errors='ignore')
decode(bytes) == SelectSeq(bytes, LAMBDA b : b # InvalidByte)

-----------------------------------------------------------------------------
(* String literals of the code *)

S_fortune ==
    <<"f", "o", "r", "t", "u", "n", "e">>
S_cow ==
    <<"c", "o", "w">>
S_moo ==
    <<"m", "o", "o">>
S_pre_open ==
    <<"<", "p", "r", "e", ">">>
S_pre_close ==
    <<"<", "/", "p", "r", "e", ">">>
S_timeout ==
    <<"t", "i", "m", "e", "o", "u", "t">>
S_TIMEOUT ==
    <<"T", "I", "M", "E", "O", "U", "T">>
S_URL_ERROR ==
    <<"U", "R", "L", "_", "E", "R", "R", "O", "R", ":", " ">>
S_REQUEST_ERROR ==
    <<"R", "E", "Q", "U", "E", "S", "T", "_", "E", "R", "R", "O", "R", ":", " ">>

(* Descriptions the HTTP library gives its exceptions *)

S_urlopen_error ==
    <<"<", "u", "r", "l", "o", "p", "e", "n", " ", "e", "r", "r", "o", "r", " ">>
S_http_error ==
    <<"H", "T", "T", "P", " ", "E", "r", "r", "o", "r", " ">>
S_timed_out ==
    <<"t", "i", "m", "e", "d", " ", "o", "u", "t">>
S_conn_refused ==
    <<"[", "E", "r", "r", "n", "o", " ", "1", "1", "1", "]", " ", "C", "o", "n",
      "n", "e", "c", "t", "i", "o", "n", " ", "r", "e", "f", "u", "s", "e", "d">>
S_conn_timed_out ==
    <<"[", "E", "r", "r", "n", "o", " ", "1", "1", "0", "]", " ", "C", "o", "n",
      "n", "e", "c", "t", "i", "o", "n", " ", "t", "i", "m", "e", "d", " ", "o",
      "u", "t">>
S_tunnel_504 ==
    <<"T", "u", "n", "n", "e", "l", " ", "c", "o", "n", "n", "e", "c", "t", "i",
      "o", "n", " ", "f", "a", "i", "l", "e", "d", ":", " ", "5", "0", "4", " ",
      "G", "a", "t", "e", "w", "a", "y", " ", "T", "i", "m", "e", "o", "u", "t">>
S_remote_closed ==
    <<"R", "e", "m", "o", "t", "e", " ", "e", "n", "d", " ", "c", "l", "o", "s",
      "e", "d", " ", "c", "o", "n", "n", "e", "c", "t", "i", "o", "n">>

-----------------------------------------------------------------------------
(* What the target can answer to one GET *)

\* the target answers with an HTTP response
Response(status, elapsed, body, ctype) ==
    [kind |-> "response", status |-> status, elapsed |-> elapsed,
     body |-> body, ctype |-> ctype,
     exc |-> "none", reason |-> << >>, timedOut |-> FALSE]

\* the request fails below HTTP; timedOut tells whether it failed by timing out
Failure(exc, reason, timedOut) ==
    [kind |-> "failure", status |-> 0, elapsed |-> 0,
     body |-> << >>, ctype |-> Absent,
     exc |-> exc, reason |-> reason, timedOut |-> timedOut]

\* connect timed out: socket.timeout inside h.request, wrapped in URLError
ConnectTimeout == Failure("URLError", S_timed_out, TRUE)
\* the kernel gave up connecting (ETIMEDOUT), wrapped in URLError
KernelTimeout == Failure("URLError", S_conn_timed_out, TRUE)
\* a proxy answered CONNECT with 504, wrapped in URLError
GatewayTimeout == Failure("URLError", S_tunnel_504, TRUE)
\* nothing listens on the port, wrapped in URLError
ConnectionRefused == Failure("URLError", S_conn_refused, FALSE)
\* no response within the timeout: socket.timeout out of h.getresponse, not wrapped
ReadTimeout == Failure("TimeoutError", S_timed_out, TRUE)
\* the server closed the connection: RemoteDisconnected, not wrapped
RemoteClosed == Failure("RemoteDisconnected", S_remote_closed, FALSE)

Failures ==
    {ConnectTimeout, KernelTimeout, GatewayTimeout, ConnectionRefused,
     ReadTimeout, RemoteClosed}

\* urllib.request.urlopen: a response outside 2xx is raised as HTTPError
urlopen(o) ==
    IF o.kind = "response"
    THEN IF 200 <= o.status /\ o.status < 300
         THEN [raised |-> "none", code |-> o.status, reason |-> << >>]
         ELSE [raised |-> "HTTPError", code |-> o.status, reason |-> << >>]
    ELSE [raised |-> o.exc, code |-> 0, reason |-> o.reason]

\* str(e) of the exception urlopen raised
str_exc(r) ==
    CASE r.raised = "HTTPError" -> S_http_error \o str_int(r.code)
      [] r.raised = "URLError" -> S_urlopen_error \o r.reason \o <<">">>
      [] OTHER -> r.reason

-----------------------------------------------------------------------------
(* K8sAppHealthChecker.check_http_connectivity *)

check_http_connectivity(o) ==
    LET r == urlopen(o) IN
    CASE r.raised = "none" ->
            [success |-> TRUE, status |-> str_int(r.code),
             response_time |-> o.elapsed]
      [] r.raised = "HTTPError" ->
            [success |-> TRUE, status |-> str_int(r.code),
             response_time |-> o.elapsed]
      [] r.raised = "URLError" ->
            IF contains(lower(str_exc(r)), S_timeout)
            THEN [success |-> FALSE, status |-> S_TIMEOUT, response_time |-> 0]
            ELSE [success |-> FALSE, status |-> S_URL_ERROR \o str_exc(r),
                  response_time |-> 0]
      [] OTHER ->
            [success |-> FALSE, status |-> S_REQUEST_ERROR \o str_exc(r),
             response_time |-> 0]

-----------------------------------------------------------------------------
(* K8sAppHealthChecker.check_wisecow_functionality *)

fortune_detected(content) == contains(lower(content), S_fortune)

cow_detected(content) ==
    contains(lower(content), S_cow) \/ contains(lower(content), S_moo)

html_format(content) ==
    contains(content, S_pre_open) /\ contains(content, S_pre_close)

functionality(http_status, fortune, cow, html) ==
    IF http_status = 200 /\ fortune /\ cow /\ html
    THEN "HEALTHY"
    ELSE "DEGRADED"

check_wisecow_functionality(o) ==
    LET r == urlopen(o) IN
    IF r.raised # "none"
    THEN [functionality |-> "FAILED", error |-> str_exc(r)]
    ELSE LET content == decode(o.body) IN
         [http_status |-> r.code,
          response_size |-> Len(content),
          content_type |-> IF o.ctype = Absent THEN "unknown" ELSE o.ctype,
          fortune_detected |-> fortune_detected(content),
          cow_detected |-> cow_detected(content),
          html_format |-> html_format(content),
          functionality |->
              functionality(r.code, fortune_detected(content),
                            cow_detected(content), html_format(content))]

-----------------------------------------------------------------------------
(* What the cluster CLI can answer *)

\* subprocess.run cannot start the command (FileNotFoundError)
KubectlNotFound ==
    [kind |-> "notfound", returncode |-> 0, stderr |-> "",
     json |-> "none", has_items |-> FALSE, items |-> << >>]

\* the command does not end within the timeout (subprocess.TimeoutExpired)
KubectlTimeout ==
    [kind |-> "timeout", returncode |-> 0, stderr |-> "",
     json |-> "none", has_items |-> FALSE, items |-> << >>]

\* the command ends with a non-zero status
KubectlFails ==
    [kind |-> "exit", returncode |-> 1,
     stderr |-> "error: the server doesn't have a resource type \"pods\"",
     json |-> "none", has_items |-> FALSE, items |-> << >>]

\* the command ends with status 0; json is the shape of what it wrote:
\* "malformed" is no JSON, "array" is JSON but no object, "object" is an
\* object, with an "items" list when has_items
KubectlExit0(json, has_items, items) ==
    [kind |-> "exit", returncode |-> 0, stderr |-> "",
     json |-> json, has_items |-> has_items, items |-> items]

\* the pod listing of a successful query
KubectlPods(items) == KubectlExit0("object", TRUE, items)

\* the name of a pod record that has no metadata.name
NoName == << >>

\* a pod record: name is NoName when the record has no metadata.name, phase
\* is Absent when status has no phase
Pod(name, phase, conditions) ==
    [name |-> name, phase |-> phase, conditions |-> conditions]

Condition(type, status) == [type |-> type, status |-> status]

\* the i-th pod of a listing is named after its place
PodName(i) == <<"wisecow", i>>

Named(recs) ==
    [i \in 1..Len(recs) |->
        Pod(PodName(i), recs[i].phase, recs[i].conditions)]

-----------------------------------------------------------------------------
(* K8sAppHealthChecker.check_k8s_pod_status *)

\* ready_condition, were only the condition it starts at looked at
ready_condition_first_only(conditions, i) ==
    /\ i <= Len(conditions)
    /\ conditions[i].type = "Ready"
    /\ conditions[i].status = "True"

\* the scan of one pod's conditions, from the i-th on
RECURSIVE ready_condition(_, _)
ready_condition(conditions, i) ==
    IF i > Len(conditions) THEN FALSE
    ELSE IF conditions[i].type = "Ready" /\ conditions[i].status = "True"
         THEN TRUE
         ELSE ready_condition(conditions, i + 1)

\* the loop over the pods, from the i-th on; raised is set by a KeyError
RECURSIVE pod_loop(_, _, _)
pod_loop(pods, i, pod_status) ==
    IF i > Len(pods) THEN pod_status
    ELSE IF pods[i].name = NoName
         THEN [pod_status EXCEPT !.raised = "'metadata'"]
         ELSE LET pod == pods[i]
                  phase == IF pod.phase = Absent THEN "Unknown" ELSE pod.phase
                  ready == ready_condition(pod.conditions, 1)
              IN  pod_loop(pods, i + 1,
                      [pod_status EXCEPT
                          !.running_pods =
                              IF phase = "Running" THEN @ + 1 ELSE @,
                          !.ready_pods = IF ready THEN @ + 1 ELSE @,
                          !.pod_details =
                              Append(@, [name |-> pod.name, phase |-> phase,
                                         ready |-> ready])])

\* kubectl_commands, were a query run a second time
kubectl_commands_retried(mode) ==
    IF ~mode THEN << >> ELSE <<"kubectl get pods", "kubectl get pods">>

\* the commands check_k8s_pod_status runs
kubectl_commands(mode) ==
    IF ~mode THEN << >> ELSE <<"kubectl get pods">>

check_k8s_pod_status(mode, k) ==
    IF ~mode THEN [status |-> "NOT_IN_K8S", pods |-> << >>]
    ELSE CASE k.kind = "notfound" ->
                [status |-> "ERROR",
                 error |-> "[Errno 2] No such file or directory: 'kubectl'"]
           [] k.kind = "timeout" ->
                [status |-> "TIMEOUT", error |-> "kubectl command timed out"]
           [] k.kind = "exit" /\ k.returncode # 0 ->
                [status |-> "KUBECTL_ERROR", error |-> k.stderr]
           [] k.kind = "exit" /\ k.returncode = 0 /\ k.json = "malformed" ->
                [status |-> "JSON_ERROR", error |-> "Expecting value"]
           [] k.kind = "exit" /\ k.returncode = 0 /\ k.json = "array" ->
                [status |-> "ERROR",
                 error |-> "'list' object has no attribute 'get'"]
           [] OTHER ->
                LET pods == IF k.has_items THEN k.items ELSE << >>
                    done == pod_loop(pods, 1,
                                [total_pods |-> Len(pods), running_pods |-> 0,
                                 ready_pods |-> 0, pod_details |-> << >>,
                                 raised |-> None])
                IN  IF done.raised # None
                    THEN [status |-> "ERROR", error |-> done.raised]
                    ELSE [status |-> "SUCCESS",
                          total_pods |-> done.total_pods,
                          running_pods |-> done.running_pods,
                          ready_pods |-> done.ready_pods,
                          pod_details |-> done.pod_details]

-----------------------------------------------------------------------------
(* K8sAppHealthChecker.run_comprehensive_check, step 4, and                *)
(* K8sAppHealthChecker._generate_recommendations                           *)

\* the response time above which a recommendation is made, in milliseconds
HighResponseTime == 5000

\* overall_healthy, were a listing without ready pods accepted
overall_healthy_zero_ready(mode, chk) ==
    LET basic ==
            /\ chk["http_connectivity"].success
            /\ Get(chk["wisecow_functionality"], "functionality", None)
                   = "HEALTHY"
        pod_status == Get(chk, "pod_status", EmptyDict)
    IN  IF mode /\ Get(pod_status, "status", None) = "SUCCESS"
        THEN basic /\ Get(pod_status, "ready_pods", 0) >= 0
        ELSE basic

\* overall_healthy, were the ready pods required whatever the query's status
overall_healthy_any_status(mode, chk) ==
    LET basic ==
            /\ chk["http_connectivity"].success
            /\ Get(chk["wisecow_functionality"], "functionality", None)
                   = "HEALTHY"
        pod_status == Get(chk, "pod_status", EmptyDict)
    IN  IF mode
        THEN basic /\ Get(pod_status, "ready_pods", 0) > 0
        ELSE basic

overall_healthy(mode, chk) ==
    LET basic ==
            /\ chk["http_connectivity"].success
            /\ Get(chk["wisecow_functionality"], "functionality", None)
                   = "HEALTHY"
        pod_status == Get(chk, "pod_status", EmptyDict)
    IN  IF mode /\ Get(pod_status, "status", None) = "SUCCESS"
        THEN basic /\ Get(pod_status, "ready_pods", 0) > 0
        ELSE basic

health_word(healthy) == IF healthy THEN "HEALTHY" ELSE "UNHEALTHY"

Rec(text, values) == [text |-> text, values |-> values]

http_recommendation(chk) ==
    IF ~chk["http_connectivity"].success
    THEN <<Rec("HTTP connectivity failed - check if application is running",
               << >>)>>
    ELSE << >>

wisecow_recommendation(chk) ==
    LET wisecow_func ==
            Get(chk["wisecow_functionality"], "functionality", None)
    IN  IF wisecow_func = "DEGRADED"
        THEN <<Rec("Wisecow functionality degraded - check fortune/cowsay installation",
                   << >>)>>
        ELSE IF wisecow_func = "FAILED"
        THEN <<Rec("Wisecow functionality failed - check application logs",
                   << >>)>>
        ELSE << >>

\* response_time_recommendation, were the threshold itself already too slow
response_time_recommendation_inclusive(chk) ==
    LET response_time == Get(chk["http_connectivity"], "response_time", 0)
    IN  IF response_time >= HighResponseTime
        THEN <<Rec("High response time - check application performance",
                   <<response_time>>)>>
        ELSE << >>

response_time_recommendation(chk) ==
    LET response_time == Get(chk["http_connectivity"], "response_time", 0)
    IN  IF response_time > HighResponseTime
        THEN <<Rec("High response time - check application performance",
                   <<response_time>>)>>
        ELSE << >>

pod_recommendation(mode, chk) ==
    LET pod_status == Get(chk, "pod_status", EmptyDict)
        ready_pods == Get(pod_status, "ready_pods", 0)
        total_pods == Get(pod_status, "total_pods", 0)
    IN  IF mode /\ Get(pod_status, "status", None) = "SUCCESS"
        THEN IF ready_pods = 0
             THEN <<Rec("No ready pods - check pod logs and readiness probes",
                        << >>)>>
             ELSE IF ready_pods < total_pods
             THEN <<Rec("Only some pods ready - check failing pods",
                        <<ready_pods, total_pods>>)>>
             ELSE << >>
        ELSE << >>

generate_recommendations(mode, chk) ==
    http_recommendation(chk) \o wisecow_recommendation(chk)
        \o response_time_recommendation(chk) \o pod_recommendation(mode, chk)

-----------------------------------------------------------------------------
(* print_results: the lines of the report; a line is the tuple of its      *)
(* texts, the numbers it interpolates left out                             *)

mark(b) == IF b THEN "ok" ELSE "fail"

print_results(mode, chk, health, recs) ==
    LET http_check == chk["http_connectivity"]
        wisecow_check == chk["wisecow_functionality"]
        pod_status == Get(chk, "pod_status", EmptyDict)
    IN  <<<<"KUBERNETES APPLICATION HEALTH CHECK REPORT">>,
          <<"Kubernetes Mode:", mark(mode)>>>>
        \o (IF mode THEN <<<<"Namespace:">>, <<"App Name:">>>> ELSE << >>)
        \o <<<<"Overall Health:", health>>,
             <<"HTTP Connectivity:", mark(http_check.success)>>,
             <<"Wisecow Functionality:",
               Get(wisecow_check, "functionality", "UNKNOWN"),
               mark(Get(wisecow_check, "fortune_detected", FALSE)),
               mark(Get(wisecow_check, "cow_detected", FALSE)),
               mark(Get(wisecow_check, "html_format", FALSE))>>>>
        \o (IF mode
            THEN IF Get(pod_status, "status", None) = "SUCCESS"
                 THEN <<<<"Pod Status:", "SUCCESS">>>>
                      \o [i \in 1..Len(pod_status.pod_details) |->
                             <<mark(pod_status.pod_details[i].ready),
                               pod_status.pod_details[i].phase>>]
                 ELSE <<<<"Pod Status:", Get(pod_status, "status", "UNKNOWN")>>>>
            ELSE << >>)
        \o (IF recs # << >>
            THEN <<<<"Recommendations:">>>>
                 \o [i \in 1..Len(recs) |-> <<recs[i].text>>]
            ELSE <<<<"Recommendations: No issues detected">>>>)

-----------------------------------------------------------------------------
(* The steps of main and of run_comprehensive_check *)

\* main: Kubernetes mode is auto-detected when the pod's service account
\* directory exists
auto_detected(a, e) == ~a.k8s_mode /\ e.in_pod

detect_k8s_mode(a, e) == a.k8s_mode \/ auto_detected(a, e)

\* main: the lines printed before run_comprehensive_check is called
startup_lines(a, e) ==
    (IF auto_detected(a, e)
     THEN <<<<"Kubernetes mode auto-detected (running in pod)">>>>
     ELSE << >>)
    \o (IF a.quiet THEN << >>
        ELSE <<<<"Checking application health:">>>>
             \o (IF detect_k8s_mode(a, e)
                 THEN <<<<"Kubernetes mode enabled">>>>
                 ELSE << >>))

\* main, from the parsed arguments to the call of run_comprehensive_check
Startup ==
    /\ pc = "main"
    /\ k8s_mode' = detect_k8s_mode(args, env)
    /\ stdout' = stdout \o startup_lines(args, env)
    /\ pc' = "http"
    /\ UNCHANGED <<args, env, checks, overall_health, recommendations, calls,
                   exit_code>>

\* results['checks']['http_connectivity']
http_connectivity_entry(o) ==
    LET r == check_http_connectivity(o)
    IN  [success |-> r.success, status |-> r.status,
         response_time |-> round3(r.response_time)]

\* run_comprehensive_check, 1. HTTP Connectivity Check
CheckHttp ==
    /\ pc = "http"
    /\ stdout' = Append(stdout, <<"Checking HTTP connectivity...">>)
    /\ calls' = Append(calls, "GET probe")
    /\ checks' = checks @@
           ("http_connectivity" :> http_connectivity_entry(env.probe))
    /\ pc' = "functionality"
    /\ UNCHANGED <<args, env, k8s_mode, overall_health, recommendations,
                   exit_code>>

\* run_comprehensive_check, 2. Wisecow Functionality Check
CheckFunctionality ==
    /\ pc = "functionality"
    /\ stdout' = Append(stdout, <<"Checking Wisecow functionality...">>)
    /\ calls' = Append(calls, "GET validator")
    /\ checks' = checks @@
           ("wisecow_functionality" :> check_wisecow_functionality(env.validator))
    /\ pc' = "pods"
    /\ UNCHANGED <<args, env, k8s_mode, overall_health, recommendations,
                   exit_code>>

\* run_comprehensive_check, 3. Kubernetes checks (if in k8s mode)
CheckPods ==
    /\ pc = "pods"
    /\ IF k8s_mode
       THEN /\ stdout' = Append(stdout, <<"Checking Kubernetes pod status...">>)
            /\ calls' = calls \o kubectl_commands(k8s_mode)
            /\ checks' = checks @@
                   ("pod_status" :> check_k8s_pod_status(k8s_mode, env.kubectl))
       ELSE UNCHANGED <<stdout, calls, checks>>
    /\ pc' = "assess"
    /\ UNCHANGED <<args, env, k8s_mode, overall_health, recommendations,
                   exit_code>>

\* run_comprehensive_check, 4. Overall health assessment, and the return
Assess ==
    /\ pc = "assess"
    /\ overall_health' = health_word(overall_healthy(k8s_mode, checks))
    /\ recommendations' = generate_recommendations(k8s_mode, checks)
    /\ calls' = Append(calls, "assess")
    /\ pc' = "report"
    /\ UNCHANGED <<args, env, k8s_mode, checks, stdout, exit_code>>

\* exit_status, were the verdict not looked at
exit_status_always_zero(health) == 0

\* sys.exit(0 if results['overall_health'] == 'HEALTHY' else 1)
exit_status(health) == IF health = "HEALTHY" THEN 0 ELSE 1

\* main, after run_comprehensive_check: the quiet and the normal report
Report ==
    /\ pc = "report"
    /\ calls' = Append(calls, "report")
    /\ IF args.quiet
       THEN /\ stdout' = Append(stdout, <<overall_health>>)
            /\ exit_code' = <<exit_status(overall_health)>>
            /\ pc' = "exited"
       ELSE /\ stdout' = stdout \o print_results(k8s_mode, checks,
                                       overall_health, recommendations)
            /\ IF args.output
               THEN /\ pc' = "save"
                    /\ UNCHANGED exit_code
               ELSE /\ exit_code' = <<exit_status(overall_health)>>
                    /\ pc' = "exited"
    /\ UNCHANGED <<args, env, k8s_mode, checks, overall_health,
                   recommendations>>

\* main, normal mode with --output: the file is written, then the exit; an
\* OSError of open or of the write is caught nowhere and ends the process
\* with the interpreter's status 1
SaveOutput ==
    /\ pc = "save"
    /\ \E write_ok \in BOOLEAN :
       IF write_ok
       THEN /\ stdout' = Append(stdout, <<"Results saved to:">>)
            /\ exit_code' = <<exit_status(overall_health)>>
            /\ pc' = "exited"
       ELSE /\ exit_code' = <<1>>
            /\ pc' = "crashed"
            /\ UNCHANGED stdout
    /\ UNCHANGED <<args, env, k8s_mode, checks, overall_health,
                   recommendations, calls>>

Next ==
    \/ Startup
    \/ CheckHttp
    \/ CheckFunctionality
    \/ CheckPods
    \/ Assess
    \/ Report
    \/ SaveOutput

-----------------------------------------------------------------------------
(* The runs that are checked *)

Args == [k8s_mode : BOOLEAN, quiet : BOOLEAN, output : BOOLEAN]

HtmlType == "text/html"

B_Fortune ==
    <<"F", "o", "r", "t", "u", "n", "e">>
B_fortune_bad_byte ==
    <<"f", "o", "r", InvalidByte, "t", "u", "n", "e">>
B_Cow ==
    <<"C", "o", "w">>
B_MOO ==
    <<"M", "O", "O">>
B_PRE_open ==
    <<"<", "P", "R", "E", ">">>
B_PRE_close ==
    <<"<", "/", "P", "R", "E", ">">>
B_says ==
    <<" ", "s", "a", "y", "s", " ">>

Body(open, fortune, cow, close) == open \o fortune \o B_says \o cow \o close

Bodies ==
    {Body(o, f, c, e) :
        o \in {S_pre_open, B_PRE_open, << >>},
        f \in {S_fortune, B_Fortune, B_fortune_bad_byte, << >>},
        c \in {S_cow, B_Cow, B_MOO, << >>},
        e \in {S_pre_close, B_PRE_close, << >>}}

\* a target that works
GoodBody == Body(S_pre_open, B_Fortune, S_cow, S_pre_close)
GoodResponse == Response(200, 1234, GoodBody, HtmlType)

\* a few targets, for the runs of the whole program
ProbeSamples ==
    {GoodResponse,
     Response(200, 50004, GoodBody, HtmlType),
     Response(200, 62000, GoodBody, HtmlType),
     Response(404, 1234, << >>, HtmlType),
     ConnectTimeout, ConnectionRefused}

ValidatorSamples ==
    {GoodResponse,
     Response(200, 1234, Body(B_PRE_open, S_fortune, S_cow, B_PRE_close), HtmlType),
     Response(200, 1234, Body(S_pre_open, S_fortune, << >>, S_pre_close), Absent),
     Response(204, 1234, << >>, Absent),
     Response(500, 1234, GoodBody, HtmlType),
     ReadTimeout}

Conditions ==
    {Condition("Ready", "True"), Condition("Ready", "False"),
     Condition("PodScheduled", "True")}

\* condition lists in which no condition is listed twice
ConditionLists ==
    {s \in SeqsUpTo(Conditions, MaxConds) :
        \A i, j \in 1..Len(s) : i # j => s[i] # s[j]}

PodRecords ==
    [phase : {"Running", "Pending", Absent}, conditions : ConditionLists]

PodSamples ==
    {[phase |-> "Running", conditions |-> <<Condition("Ready", "True")>>],
     [phase |-> "Running", conditions |-> <<Condition("Ready", "False")>>],
     [phase |-> Absent, conditions |-> << >>]}

KubectlSamples ==
    {KubectlNotFound, KubectlTimeout, KubectlFails,
     KubectlExit0("malformed", FALSE, << >>),
     KubectlExit0("array", FALSE, << >>),
     KubectlExit0("object", FALSE, << >>),
     KubectlPods(<<Pod(NoName, "Running", << >>)>>)}
    \cup {KubectlPods(Named(recs)) : recs \in SeqsUpTo(PodSamples, MaxPods)}

Env(in_pod, probe, validator, kubectl) ==
    [in_pod |-> in_pod, probe |-> probe, validator |-> validator,
     kubectl |-> kubectl]

\* the start of main
Init ==
    /\ args \in Args
    /\ \E i \in BOOLEAN, p \in ProbeSamples, v \in ValidatorSamples,
              k \in KubectlSamples :
           env = Env(i, p, v, k)
    /\ pc = "main"
    /\ k8s_mode = FALSE
    /\ checks = EmptyDict
    /\ overall_health = None
    /\ recommendations = << >>
    /\ stdout = << >>
    /\ calls = << >>
    /\ exit_code = << >>

Spec == Init /\ [][Next]_vars

-----------------------------------------------------------------------------
(* The checks one by one: each specification starts where the run calls    *)
(* the check, with the target it is applied to drawn from a larger set     *)

NormalArgs == [k8s_mode |-> FALSE, quiet |-> FALSE, output |-> FALSE]
ClusterArgs == [k8s_mode |-> TRUE, quiet |-> FALSE, output |-> FALSE]

ProbeTargets ==
    {Response(s, t, << >>, HtmlType) :
        s \in {200, 201, 204, 304, 404, 500, 503},
        t \in {1, 1234, 49995, 50004, 50005, 50006, 50015, 62000}}
    \cup Failures

\* run_comprehensive_check at the call of check_http_connectivity
InitHttp ==
    /\ args = NormalArgs
    /\ \E p \in ProbeTargets :
           env = Env(FALSE, p, GoodResponse, KubectlNotFound)
    /\ pc = "http"
    /\ k8s_mode = detect_k8s_mode(args, env)
    /\ checks = EmptyDict
    /\ overall_health = None
    /\ recommendations = << >>
    /\ stdout = startup_lines(args, env)
    /\ calls = << >>
    /\ exit_code = << >>

NextHttp == CheckHttp

SpecHttp == InitHttp /\ [][NextHttp]_vars

ValidatorTargets ==
    {Response(s, 1234, b, c) :
        s \in {200, 201, 404, 500}, b \in Bodies, c \in {HtmlType, Absent}}
    \cup Failures

\* run_comprehensive_check at the call of check_wisecow_functionality
InitContent ==
    /\ args = NormalArgs
    /\ \E v \in ValidatorTargets :
           env = Env(FALSE, GoodResponse, v, KubectlNotFound)
    /\ pc = "functionality"
    /\ k8s_mode = detect_k8s_mode(args, env)
    /\ checks = ("http_connectivity" :> http_connectivity_entry(env.probe))
    /\ overall_health = None
    /\ recommendations = << >>
    /\ stdout = Append(startup_lines(args, env),
                       <<"Checking HTTP connectivity...">>)
    /\ calls = <<"GET probe">>
    /\ exit_code = << >>

NextContent == CheckFunctionality

SpecContent == InitContent /\ [][NextContent]_vars

\* run_comprehensive_check at the call of check_k8s_pod_status
InitPods ==
    /\ args = ClusterArgs
    /\ pc = "pods"
    /\ checks = ("http_connectivity" :> http_connectivity_entry(GoodResponse))
                @@ ("wisecow_functionality" :>
                        check_wisecow_functionality(GoodResponse))
    /\ overall_health = None
    /\ recommendations = << >>
    /\ calls = <<"GET probe", "GET validator">>
    /\ exit_code = << >>
    /\ \E n \in 0..MaxPods :
           \E recs \in [1..n -> PodRecords] :
               env = Env(FALSE, GoodResponse, GoodResponse,
                         KubectlPods(Named(recs)))
    /\ k8s_mode = detect_k8s_mode(args, env)
    /\ stdout = startup_lines(args, env)
                \o <<<<"Checking HTTP connectivity...">>,
                     <<"Checking Wisecow functionality...">>>>

NextPods == CheckPods

SpecPods == InitPods /\ [][NextPods]_vars

-----------------------------------------------------------------------------
(* Properties *)

AfterPods == {"assess", "report", "save", "exited", "crashed"}
Assessed == {"report", "save", "exited", "crashed"}

HttpCheck == checks["http_connectivity"]
WisecowCheck == checks["wisecow_functionality"]
PodStatus == checks["pod_status"]

BasicHealthy == HttpCheck.success /\ WisecowCheck.functionality = "HEALTHY"

\* C1: once the health is assessed, overall_health is HEALTHY exactly when the
\* HTTP probe succeeded, functionality is HEALTHY and, in Kubernetes mode with a
\* query of status SUCCESS, ready_pods > 0; otherwise it is UNHEALTHY.
C1_Verdict ==
    pc \in Assessed =>
        /\ overall_health \in {"HEALTHY", "UNHEALTHY"}
        /\ overall_health = "HEALTHY" <=>
               /\ BasicHealthy
               /\ \/ ~k8s_mode
                  \/ PodStatus.status # "SUCCESS"
                  \/ PodStatus.ready_pods > 0

\* C1 happens: probe and functionality are fine, the query succeeds and lists
\* no pod, and the verdict is UNHEALTHY
C1_Witness ==
    /\ pc \in Assessed
    /\ k8s_mode
    /\ BasicHealthy
    /\ PodStatus.status = "SUCCESS"
    /\ PodStatus.total_pods = 0
    /\ overall_health = "UNHEALTHY"

\* C2: once the health is assessed, the recommendation list is empty exactly
\* when the verdict is HEALTHY, the recorded response time is at most 5.0 s
\* and, in Kubernetes mode with a query of status SUCCESS, all of a non-zero
\* number of pods are ready.
C2_Recommendations ==
    pc \in Assessed =>
        (recommendations = << >> <=>
            /\ overall_health = "HEALTHY"
            /\ HttpCheck.response_time <= 5000
            /\ \/ ~k8s_mode
               \/ PodStatus.status # "SUCCESS"
               \/ /\ PodStatus.ready_pods = PodStatus.total_pods
                  /\ PodStatus.total_pods > 0)

\* C2 happens: a HEALTHY verdict with a recommendation, some but not all pods
\* being ready
C2_Witness ==
    /\ pc \in Assessed
    /\ overall_health = "HEALTHY"
    /\ k8s_mode
    /\ PodStatus.status = "SUCCESS"
    /\ 0 < PodStatus.ready_pods
    /\ PodStatus.ready_pods < PodStatus.total_pods
    /\ Len(recommendations) = 1

VerdictStatus == IF overall_health = "HEALTHY" THEN 0 ELSE 1

\* C3 as stated: every run whose three checks completed ends with status 0 for
\* HEALTHY and 1 for UNHEALTHY.
C3_Original ==
    exit_code # << >> =>
        /\ overall_health \in {"HEALTHY", "UNHEALTHY"}
        /\ exit_code = <<VerdictStatus>>

\* C3 as amended: a run that ends by main's sys.exit ends with status 0 for
\* HEALTHY and 1 for UNHEALTHY, in quiet and in normal mode; the only other end
\* is the failed write of the output file in normal mode, with status 1
\* whatever the verdict.
C3_ExitCode ==
    /\ pc = "exited" =>
          /\ overall_health \in {"HEALTHY", "UNHEALTHY"}
          /\ exit_code = <<VerdictStatus>>
    /\ pc = "crashed" => (exit_code = <<1>> /\ ~args.quiet /\ args.output)
    /\ exit_code # << >> <=> pc \in {"exited", "crashed"}

\* C3 happens: an UNHEALTHY run in quiet mode has exited with status 1
C3_Witness ==
    /\ pc = "exited"
    /\ args.quiet
    /\ overall_health = "UNHEALTHY"
    /\ exit_code = <<1>>

WisecowFields ==
    {"http_status", "response_size", "content_type", "fortune_detected",
     "cow_detected", "html_format", "functionality"}

\* C4 as stated: whenever the target answers the validator's GET with a
\* response of any status, functionality is HEALTHY iff the status is 200 and
\* the three markers are true, DEGRADED otherwise, with all fields populated;
\* FAILED comes with an error description only, and only without a response.
C4_Original ==
    pc = "pods" =>
        IF env.validator.kind = "response"
        THEN /\ WisecowCheck.functionality \in {"HEALTHY", "DEGRADED"}
             /\ DOMAIN WisecowCheck = WisecowFields
             /\ WisecowCheck.http_status = env.validator.status
             /\ WisecowCheck.functionality = "HEALTHY" <=>
                    /\ WisecowCheck.http_status = 200
                    /\ WisecowCheck.fortune_detected
                    /\ WisecowCheck.cow_detected
                    /\ WisecowCheck.html_format
        ELSE /\ WisecowCheck.functionality = "FAILED"
             /\ DOMAIN WisecowCheck = {"functionality", "error"}

\* int(s) of a string of digits
RECURSIVE int_str(_)
int_str(s) ==
    IF s = << >> THEN 0
    ELSE 10 * int_str(SubSeq(s, 1, Len(s) - 1))
         + (CHOOSE d \in 0..9 : Digits[d + 1] = s[Len(s)])

IsPrefix(s, t) ==
    Len(s) <= Len(t) /\ \A i \in 1..Len(s) : s[i] = t[i]

\* C5 as stated: a response of any status gives success with the status code;
\* a request that timed out gives failure, "TIMEOUT" and latency 0; any other
\* failure gives failure, a tagged string holding the description and
\* latency 0.
C5_Original ==
    pc = "functionality" =>
        LET o == env.probe IN
        /\ o.kind = "response" =>
              /\ HttpCheck.success
              /\ int_str(HttpCheck.status) = o.status
        /\ (o.kind = "failure" /\ o.timedOut) =>
              /\ ~HttpCheck.success
              /\ HttpCheck.status = S_TIMEOUT
              /\ HttpCheck.response_time = 0
        /\ (o.kind = "failure" /\ ~o.timedOut) =>
              /\ ~HttpCheck.success
              /\ \/ IsPrefix(S_URL_ERROR, HttpCheck.status)
                 \/ IsPrefix(S_REQUEST_ERROR, HttpCheck.status)
              /\ contains(HttpCheck.status, o.reason)
              /\ HttpCheck.response_time = 0

KubectlRaises(k) ==
    \/ k.kind = "notfound"
    \/ k.kind = "exit" /\ k.returncode = 0 /\ k.json = "array"
    \/ /\ k.kind = "exit" /\ k.returncode = 0 /\ k.json = "object"
       /\ \E i \in 1..Len(k.items) : k.items[i].name = NoName

\* C6: in Kubernetes mode every failure of the query is captured in pod_status
\* (non-zero exit: KUBECTL_ERROR with stderr, timeout: TIMEOUT, malformed
\* JSON: JSON_ERROR, any other exception: ERROR), the run goes on to the
\* assessment, and the verdict is then that of probe and functionality alone.
C6_QueryFailures ==
    /\ pc = "pods" => ENABLED CheckPods
    /\ pc = "assess" => ENABLED Assess
    /\ (k8s_mode /\ pc \in AfterPods) =>
          LET k == env.kubectl IN
          /\ (k.kind = "exit" /\ k.returncode # 0) =>
                 PodStatus.status = "KUBECTL_ERROR" /\ PodStatus.error = k.stderr
          /\ k.kind = "timeout" => PodStatus.status = "TIMEOUT"
          /\ (k.kind = "exit" /\ k.returncode = 0 /\ k.json = "malformed") =>
                 PodStatus.status = "JSON_ERROR"
          /\ KubectlRaises(k) => PodStatus.status = "ERROR"
          /\ (PodStatus.status # "SUCCESS" /\ pc \in Assessed) =>
                 (overall_health = "HEALTHY" <=> BasicHealthy)

\* C6 happens: the query ended with a non-zero status and the run is assessed
\* HEALTHY
C6_Witness ==
    /\ pc \in Assessed
    /\ k8s_mode
    /\ env.kubectl.kind = "exit"
    /\ env.kubectl.returncode # 0
    /\ PodStatus.status = "KUBECTL_ERROR"
    /\ overall_health = "HEALTHY"

IsReady(pod) ==
    \E j \in 1..Len(pod.conditions) :
        pod.conditions[j].type = "Ready" /\ pod.conditions[j].status = "True"

\* C7: after a successful query, total_pods is the number of records,
\* running_pods the number with phase "Running", ready_pods the number with a
\* condition of type "Ready" and status "True", pod_details has one entry per
\* record in the listing's order, and both counts lie between 0 and total_pods.
C7_PodCounts ==
    pc = "assess" =>
        LET items == env.kubectl.items
            n == Len(items)
        IN  /\ PodStatus.status = "SUCCESS"
            /\ PodStatus.total_pods = n
            /\ PodStatus.running_pods =
                   Cardinality({i \in 1..n : items[i].phase = "Running"})
            /\ PodStatus.ready_pods =
                   Cardinality({i \in 1..n : IsReady(items[i])})
            /\ Len(PodStatus.pod_details) = n
            /\ \A i \in 1..n :
                   /\ PodStatus.pod_details[i].name = items[i].name
                   /\ PodStatus.pod_details[i].phase =
                          (IF items[i].phase = Absent THEN "Unknown"
                           ELSE items[i].phase)
                   /\ PodStatus.pod_details[i].ready = IsReady(items[i])
            /\ 0 <= PodStatus.ready_pods
            /\ PodStatus.ready_pods <= PodStatus.total_pods
            /\ 0 <= PodStatus.running_pods
            /\ PodStatus.running_pods <= PodStatus.total_pods

\* C7 happens: of two pods listed, none is running and the second is ready by
\* its second condition
C7_Witness ==
    /\ pc = "assess"
    /\ PodStatus.total_pods = 2
    /\ PodStatus.running_pods = 0
    /\ PodStatus.ready_pods = 1
    /\ PodStatus.pod_details[2].ready
    /\ Len(env.kubectl.items[2].conditions) = 2
    /\ env.kubectl.items[2].conditions[1].type # "Ready"

\* C8 as stated: the three markers are case-insensitive substring searches over
\* the body: "fortune"; "cow" or "moo"; an opening and a closing pre tag.
C8_Original ==
    (pc = "pods" /\ WisecowCheck.functionality # "FAILED") =>
        LET content_lower == lower(decode(env.validator.body)) IN
        /\ WisecowCheck.fortune_detected = contains(content_lower, S_fortune)
        /\ WisecowCheck.cow_detected =
               (contains(content_lower, S_cow) \/ contains(content_lower, S_moo))
        /\ WisecowCheck.html_format =
               (contains(content_lower, S_pre_open)
                /\ contains(content_lower, S_pre_close))

\* C9 as stated: in quiet mode nothing but the verdict word is written to
\* standard output.
C9_Original ==
    args.quiet =>
        \A i \in 1..Len(stdout) : stdout[i] \in {<<"HEALTHY">>, <<"UNHEALTHY">>}

ExpectedCalls(mode) ==
    <<"GET probe", "GET validator">>
    \o (IF mode THEN <<"kubectl get pods">> ELSE << >>)
    \o <<"assess", "report">>

Occurred(call) == \E i \in 1..Len(calls) : calls[i] = call

\* C10: the external calls of a run are, in this order and once each, the
\* probe's GET, the validator's GET and, in Kubernetes mode only, the cluster
\* command; verdict and recommendations exist only after them, the report and
\* the exit only after the assessment.
C10_LinearOrder ==
    /\ IsPrefix(calls, ExpectedCalls(k8s_mode))
    /\ (overall_health # None \/ recommendations # << >>) => Occurred("assess")
    /\ exit_code # << >> => calls = ExpectedCalls(k8s_mode)
    /\ Occurred("kubectl get pods") =>
          (k8s_mode /\ (args.k8s_mode \/ env.in_pod))

\* C10 happens: a run in Kubernetes mode has ended after its five steps
C10_Witness ==
    /\ pc = "exited"
    /\ k8s_mode
    /\ calls = <<"GET probe", "GET validator", "kubectl get pods", "assess",
                 "report">>

====
